---- MODULE Spec2Model ----
(***************************************************************************)
(* A model of the HTU31D temperature / humidity sensor driver              *)
(* (adafruit_htu31d.py): the HTU31D session object, its bus transactions   *)
(* and the CRC routine that validates every sample.                        *)
(*                                                                         *)
(* The I2C bus device is the environment: every transaction either fails   *)
(* (the bus library raises OSError) or succeeds, and a read delivers bytes *)
(* chosen by the environment.                                              *)
(***************************************************************************)
EXTENDS Integers, Sequences, FiniteSets

VARIABLES
    conversion_command, \* self._conversion_command
    heater,             \* self._heater: NoAttr until the setter first assigns it
    buffer,             \* self._buffer, the 6-byte scratch bytearray
    call,               \* the last call completed: operation, argument, outcome, bus trace
    sel,                \* history: resolution indices last set since the last reset
    crc_pc,             \* position of a running _crc call
    crc_value,          \* its argument
    crc_reg,            \* its locals: result, msb, mask, polynom, and the iterations run
    crc_ret,            \* its return value
    threads             \* two callers sharing the session: where each is in its call

vars == <<conversion_command, heater, buffer, call, sel,
          crc_pc, crc_value, crc_reg, crc_ret, threads>>

sessionVars == <<conversion_command, heater, buffer, call, sel>>

crcVars == <<crc_pc, crc_value, crc_reg, crc_ret>>

-----------------------------------------------------------------------------
(* Bounds of the model: how many of the pooled bus replies are tried.      *)

NumSamples == 3

NumSerials == 1

NumDecodeCodes == 256

(* Samples the device may answer a read with: temperature code, humidity   *)
(* code, and what each CRC byte sent is XOR-ed with (0: the CRC is valid). *)
SamplePool == <<
    [t |-> 26214, tflip |-> 0, h |-> 32768, hflip |-> 0],
    [t |-> 0,     tflip |-> 1, h |-> 65535, hflip |-> 0],
    [t |-> 65535, tflip |-> 0, h |-> 0,     hflip |-> 128],
    [t |-> 1,     tflip |-> 255, h |-> 43981, hflip |-> 16],
    [t |-> 43981, tflip |-> 0, h |-> 1,     hflip |-> 0],
    [t |-> 32768, tflip |-> 0, h |-> 26214, hflip |-> 1] >>

Samples == {SamplePool[i] : i \in 1..NumSamples}

SampleCodes == {s.t : s \in Samples} \cup {s.h : s \in Samples}

(* 16-bit codes spread over the whole range, 0x0000 and 0xFFFF among them, *)
(* on which the decoding is tried.                                         *)
DecodeCodes == {(257 * k) % 65536 : k \in 0..(NumDecodeCodes - 1)}

(* 4-byte replies to the read-serial command.                              *)
SerialPool == <<
    <<18, 52, 86, 120>>, <<255, 255, 255, 255>>, <<0, 0, 0, 1>>,
    <<128, 0, 0, 0>>, <<0, 1, 0, 0>> >>

SerialReplies == {SerialPool[i] : i \in 1..NumSerials}

-----------------------------------------------------------------------------
(* Python integer operators on non-negative integers.                      *)

RECURSIVE BitAnd(_, _)
BitAnd(a, b) ==
    IF a = 0 \/ b = 0 THEN 0
    ELSE (a % 2) * (b % 2) + 2 * BitAnd(a \div 2, b \div 2)

RECURSIVE BitOr(_, _)
BitOr(a, b) ==
    IF a = 0 THEN b
    ELSE IF b = 0 THEN a
    ELSE (IF a % 2 = 1 \/ b % 2 = 1 THEN 1 ELSE 0) + 2 * BitOr(a \div 2, b \div 2)

RECURSIVE BitXor(_, _)
BitXor(a, b) ==
    IF a = 0 THEN b
    ELSE IF b = 0 THEN a
    ELSE ((a + b) % 2) + 2 * BitXor(a \div 2, b \div 2)

(* a & ~m : Python's ~m is -m-1 in unbounded two's complement, so the and  *)
(* keeps exactly the bits of a that m does not have.                       *)
RECURSIVE BitAndNot(_, _)
BitAndNot(a, m) ==
    IF a = 0 THEN 0
    ELSE (IF a % 2 = 1 /\ m % 2 = 0 THEN 1 ELSE 0) + 2 * BitAndNot(a \div 2, m \div 2)

RECURSIVE Pow2(_)
Pow2(n) == IF n = 0 THEN 1 ELSE 2 * Pow2(n - 1)

ShiftLeft(a, n) == a * Pow2(n)

ShiftRight(a, n) == a \div Pow2(n)

-----------------------------------------------------------------------------
(* Module constants.                                                       *)

_HTU31D_READSERIAL == 10

_HTU31D_SOFTRESET == 30

_HTU31D_HEATERON == 4

_HTU31D_HEATEROFF == 2

_HTU31D_CONVERSION == 64

_HTU31D_READTEMPHUM == 0

_HTU31D_HUMIDITY_RES == <<"0.020%", "0.014%", "0.010%", "0.007%">>

_HTU31D_TEMP_RES == <<"0.040", "0.025", "0.016", "0.012">>

(* tuple membership and tuple.index (0-based, first occurrence)            *)
InTuple(value, tuple) == \E i \in 1..Len(tuple) : tuple[i] = value

TupleIndex(tuple, value) ==
    (CHOOSE i \in 1..Len(tuple) :
        /\ tuple[i] = value
        /\ \A j \in 1..(i - 1) : tuple[j] # value) - 1

-----------------------------------------------------------------------------
(* HTU31D._crc                                                             *)

CrcLoopExit == 128

(* an entry that starts the top-bit mask at the high byte's lowest bit     *)
CrcEntryShortMask(value) ==
    [polynom |-> 9994240,
     msb     |-> 32768,
     mask    |-> 16744448,
     result  |-> ShiftLeft(value, 8),
     iters   |-> 0]

(* an entry with the polynomial x^8 + x^2 + x + 1                          *)
CrcEntryPoly07(value) ==
    [polynom |-> 8617984,               \* 0x838000
     msb     |-> 8388608,
     mask    |-> 16744448,
     result  |-> ShiftLeft(value, 8),
     iters   |-> 0]

CrcEntry(value) ==
    [polynom |-> 9994240,               \* 0x988000
     msb     |-> 8388608,               \* 0x800000
     mask    |-> 16744448,              \* 0xFF8000
     result  |-> ShiftLeft(value, 8),
     iters   |-> 0]

(* result = ((result ^ polynom) & mask) | (result & ~mask)                 *)
CrcXorStep(r) ==
    BitOr(BitAnd(BitXor(r.result, r.polynom), r.mask), BitAndNot(r.result, r.mask))

(* one pass through the body of the while loop                             *)
CrcBody(r) ==
    [polynom |-> ShiftRight(r.polynom, 1),
     msb     |-> ShiftRight(r.msb, 1),
     mask    |-> ShiftRight(r.mask, 1),
     result  |-> IF BitAnd(r.result, r.msb) # 0 THEN CrcXorStep(r) ELSE r.result,
     iters   |-> r.iters + 1]

(* a loop that stops after the eight bits of the high byte                 *)
CrcLoopCondHighByte(r) == r.msb # 32768

(* while msb != 0x80                                                       *)
CrcLoopCond(r) == r.msb # CrcLoopExit

RECURSIVE CrcLoop(_)
CrcLoop(r) == IF CrcLoopCond(r) THEN CrcLoop(CrcBody(r)) ELSE r

_crc(value) == CrcLoop(CrcEntry(value)).result

-----------------------------------------------------------------------------
(* Values a call hands back.                                               *)

NoAttr == "<no attribute>"

Returned(pytype, val) == [kind |-> "return", exc |-> "", pytype |-> pytype, val |-> val]

Raised(exc) == [kind |-> "raise", exc |-> exc, pytype |-> "", val |-> <<>>]

ReturnedNone == Returned("None", <<>>)

(* Bus events of one call, in order.                                       *)
BusWrite(out, ok) ==
    [kind |-> "write", out |-> out, in_len |-> 0, ms |-> 0, ok |-> ok]

BusWriteThenRead(out, n, ok) ==
    [kind |-> "write_then_readinto", out |-> out, in_len |-> n, ms |-> 0, ok |-> ok]

Sleep(ms) ==
    [kind |-> "sleep", out |-> <<>>, in_len |-> 0, ms |-> ms, ok |-> TRUE]

Call(op, arg, result, trace) ==
    [op |-> op, arg |-> arg, result |-> result, trace |-> trace]

(* buffer with its first Len(bytes) bytes replaced (readinto with in_end)  *)
ReadInto(buf, bytes) ==
    [i \in 1..Len(buf) |-> IF i <= Len(bytes) THEN bytes[i] ELSE buf[i]]

SetByte0(buf, b) == [buf EXCEPT ![1] = b]

-----------------------------------------------------------------------------
(* HTU31D.__init__ : the state once the constructor has returned.          *)

Threads == {1, 2}

(* A caller that is in no call; the fields are those of its last call: the *)
(* bytes it put on the bus, the bytes it read, the bytes it unpacked, its  *)
(* outcome, and whether no step of the other caller fell inside the call.  *)
IdleThread ==
    [pc |-> "idle", op |-> "", arg |-> "", alone |-> TRUE,
     sent |-> <<>>, got |-> <<>>, unpacked |-> <<>>, ret |-> ReturnedNone]

CrcIdle == [polynom |-> 0, msb |-> 0, mask |-> 0, result |-> 0, iters |-> 0]

InitCrcIdle ==
    /\ crc_pc = "idle"
    /\ crc_value = 0
    /\ crc_reg = CrcIdle
    /\ crc_ret = 0

InitSession ==
    /\ conversion_command = _HTU31D_CONVERSION
    /\ heater = NoAttr
    /\ buffer = <<_HTU31D_SOFTRESET, 0, 0, 0, 0, 0>>
    /\ call = Call("__init__", "", ReturnedNone,
                   <<BusWrite(<<_HTU31D_SOFTRESET>>, TRUE), Sleep(15)>>)
    /\ sel = [t |-> 0, h |-> 0]
    /\ threads = [t \in Threads |-> IdleThread]

Init == InitSession /\ InitCrcIdle

(* HTU31D.reset                                                            *)
(* a reset that leaves the command as it was                               *)
reset_conversion_command_kept(cc) == cc

(* self._conversion_command = _HTU31D_CONVERSION                           *)
reset_conversion_command(cc) == _HTU31D_CONVERSION

(* a reset that restores the command only once its write has succeeded     *)
reset_write_first ==
    \E ok \in BOOLEAN :
        LET buf == SetByte0(buffer, _HTU31D_SOFTRESET)
            wr  == BusWrite(<<buf[1]>>, ok)
        IN  /\ conversion_command' = IF ok THEN _HTU31D_CONVERSION ELSE conversion_command
            /\ buffer' = buf
            /\ sel' = IF ok THEN [t |-> 0, h |-> 0] ELSE sel
            /\ call' = IF ok
                       THEN Call("reset", "", ReturnedNone, <<wr, Sleep(15)>>)
                       ELSE Call("reset", "", Raised("OSError"), <<wr>>)
            /\ UNCHANGED <<heater>>
            /\ UNCHANGED <<crcVars, threads>>

reset ==
    \E ok \in BOOLEAN :
        LET buf == SetByte0(buffer, _HTU31D_SOFTRESET)
            wr  == BusWrite(<<buf[1]>>, ok)
        IN  /\ conversion_command' = reset_conversion_command(conversion_command)
            /\ buffer' = buf
            /\ sel' = [t |-> 0, h |-> 0]
            /\ call' = IF ok
                       THEN Call("reset", "", ReturnedNone, <<wr, Sleep(15)>>)
                       ELSE Call("reset", "", Raised("OSError"), <<wr>>)
            /\ UNCHANGED <<heater>>
            /\ UNCHANGED <<crcVars, threads>>

-----------------------------------------------------------------------------
(* HTU31D.serial_number                                                    *)

(* A 32-bit unsigned integer is kept as its two 16-bit halves.             *)
U32(b) == [hi |-> b[1] * 256 + b[2], lo |-> b[3] * 256 + b[4]]

(* struct.unpack(">I", b): a tuple holding one big-endian unsigned integer *)
struct_unpack_I(b) == Returned("tuple", <<U32(b)>>)

serial_number ==
    \E ok \in BOOLEAN, reply \in SerialReplies :
        LET buf == SetByte0(buffer, _HTU31D_READSERIAL)
            tr  == BusWriteThenRead(<<buf[1]>>, 4, ok)
            got == ReadInto(buf, reply)
        IN  /\ buffer' = IF ok THEN got ELSE buf
            /\ call' = IF ok
                       THEN Call("serial_number", "",
                                 struct_unpack_I(SubSeq(got, 1, 4)), <<tr>>)
                       ELSE Call("serial_number", "", Raised("OSError"), <<tr>>)
            /\ UNCHANGED <<conversion_command, heater, sel>>
            /\ UNCHANGED <<crcVars, threads>>

-----------------------------------------------------------------------------
(* HTU31D.heater                                                           *)

(* Values the heater setter is called with: the two booleans and one       *)
(* value that is neither.                                                  *)
HeaterArgs == {"True", "False", "on"}

(* return self._heater : AttributeError while the attribute was never set  *)
heater_getter(h) ==
    IF h = NoAttr THEN Raised("AttributeError") ELSE Returned("bool", <<h>>)

heater_get ==
    /\ call' = Call("heater", "", heater_getter(heater), <<>>)
    /\ UNCHANGED <<conversion_command, heater, buffer, sel>>
    /\ UNCHANGED <<crcVars, threads>>

(* a setter that caches the mode only when it switches the heater on       *)
heater_cached_on_only(old, new_mode) == IF new_mode = "True" THEN new_mode ELSE old

(* the value cached by the setter once the argument passed the check       *)
heater_cached(old, new_mode) == new_mode

(* a setter with the two opcodes exchanged                                 *)
heater_command_swapped(new_mode) ==
    IF new_mode = "True" THEN _HTU31D_HEATEROFF ELSE _HTU31D_HEATERON

heater_command(new_mode) ==
    IF new_mode = "True" THEN _HTU31D_HEATERON ELSE _HTU31D_HEATEROFF

heater_set ==
    \E new_mode \in HeaterArgs, ok \in BOOLEAN :
        IF new_mode \notin {"True", "False"}
        THEN /\ call' = Call("heater=", new_mode, Raised("AttributeError"), <<>>)
             /\ UNCHANGED <<conversion_command, heater, buffer, sel>>
             /\ UNCHANGED <<crcVars, threads>>
        ELSE LET buf == SetByte0(buffer, heater_command(new_mode))
                 wr  == BusWrite(<<buf[1]>>, ok)
             IN  /\ heater' = heater_cached(heater, new_mode)
                 /\ buffer' = buf
                 /\ call' = Call("heater=", new_mode,
                                 IF ok THEN ReturnedNone ELSE Raised("OSError"),
                                 <<wr>>)
                 /\ UNCHANGED <<conversion_command, sel>>
                 /\ UNCHANGED <<crcVars, threads>>

-----------------------------------------------------------------------------
(* HTU31D.measurements, HTU31D.temperature, HTU31D.relative_humidity       *)

(* _crc over the words the bus can deliver, computed once.                 *)
StagedBytes ==
    {_HTU31D_SOFTRESET, _HTU31D_HEATERON, _HTU31D_HEATEROFF,
     _HTU31D_CONVERSION, _HTU31D_READTEMPHUM}

(* temperature words whose high byte is an opcode staged over a sample     *)
OverwrittenCodes == {256 * b + (s.t % 256) : b \in StagedBytes, s \in Samples}

CrcOf == [v \in SampleCodes \cup DecodeCodes \cup OverwrittenCodes |-> _crc(v)]

(* The six bytes the device answers: code, CRC byte, code, CRC byte, each  *)
(* CRC byte XOR-ed with a flip chosen by the environment.                  *)
SampleBytes(t, tflip, h, hflip) ==
    <<t \div 256, t % 256, BitXor(CrcOf[t], tflip),
      h \div 256, h % 256, BitXor(CrcOf[h], hflip)>>

(* struct.unpack_from(">HBHB", buffer)                                     *)
struct_unpack_HBHB(buf) ==
    [temperature  |-> buf[1] * 256 + buf[2],
     temp_crc     |-> buf[3],
     humidity     |-> buf[4] * 256 + buf[5],
     humidity_crc |-> buf[6]]

(* a measurement that always sends the base opcode                         *)
conversion_byte_base(cc) == _HTU31D_CONVERSION

(* self._buffer[0] = self._conversion_command                              *)
conversion_byte(cc) == cc

(* a check that rejects a sample only when both CRC bytes are wrong        *)
crc_invalid_both(s) ==
    /\ s.temp_crc # CrcOf[s.temperature]
    /\ s.humidity_crc # CrcOf[s.humidity]

(* a check that looks at the temperature CRC byte only                     *)
crc_invalid_temperature_only(s) == s.temp_crc # CrcOf[s.temperature]

(* temp_crc != self._crc(temperature) or humidity_crc != self._crc(humidity) *)
crc_invalid(s) ==
    \/ s.temp_crc # CrcOf[s.temperature]
    \/ s.humidity_crc # CrcOf[s.humidity]

(* Floats are kept exactly, as numerators over 65535.                      *)
Scale == 65535

(* a decoding with the offset and span of another sensor family            *)
decode_temperature_45_175(code) == (-45) * Scale + 175 * code

(* -40.0 + 165.0 * temperature / 65535.0                                   *)
decode_temperature(code) == (-40) * Scale + 165 * code

Min(a, b) == IF a <= b THEN a ELSE b

Max(a, b) == IF a >= b THEN a ELSE b

(* a clamp with min and max exchanged: min(max(humidity, 100), 0)          *)
decode_humidity_swapped(code) == Min(Max(100 * code, 100 * Scale), 0)

(* max(min(100 * humidity / 65535.0, 100), 0)                              *)
decode_humidity(code) == Max(Min(100 * code, 100 * Scale), 0)

(* The whole of measurements: fail names the bus transaction that raises  *)
(* (0: none), reply the six bytes read.                                    *)
measure(cc, buf0, fail, reply) ==
    LET buf1 == SetByte0(buf0, conversion_byte(cc))
        wr   == BusWrite(<<buf1[1]>>, fail # 1)
        buf2 == SetByte0(buf1, _HTU31D_READTEMPHUM)
        rd   == BusWriteThenRead(<<buf2[1]>>, Len(buf2), fail # 2)
        buf3 == IF fail = 0 THEN ReadInto(buf2, reply) ELSE buf2
        s    == struct_unpack_HBHB(buf3)
    IN  IF fail = 1
        THEN [buffer |-> buf1, result |-> Raised("OSError"), trace |-> <<wr>>]
        ELSE IF fail = 2
        THEN [buffer |-> buf2, result |-> Raised("OSError"),
              trace |-> <<wr, Sleep(20), rd>>]
        ELSE IF crc_invalid(s)
        THEN [buffer |-> buf3, result |-> Raised("RuntimeError"),
              trace |-> <<wr, Sleep(20), rd>>]
        ELSE [buffer |-> buf3,
              result |-> Returned("tuple",
                           <<decode_temperature(s.temperature),
                             decode_humidity(s.humidity)>>),
              trace |-> <<wr, Sleep(20), rd>>]

(* self.measurements[i]                                                    *)
Subscript(result, i) ==
    IF result.kind = "return" THEN Returned("float", <<result.val[i + 1]>>)
    ELSE result

Replies == {SampleBytes(s.t, s.tflip, s.h, s.hflip) : s \in Samples}

(* What the bus does during one measurement: the first transaction fails,  *)
(* the second fails, or both succeed and the read delivers a reply.        *)
MeasureInputs ==
    {<<1, <<>> >>, <<2, <<>> >>} \cup {<<0, r>> : r \in Replies}

(* a measurement that falls back to the base command after a CRC error     *)
measurements_default_on_error ==
    \E in \in MeasureInputs :
        LET m == measure(conversion_command, buffer, in[1], in[2])
        IN  /\ buffer' = m.buffer
            /\ call' = Call("measurements", "", m.result, m.trace)
            /\ conversion_command' = IF m.result = Raised("RuntimeError")
                                     THEN _HTU31D_CONVERSION ELSE conversion_command
            /\ UNCHANGED <<heater, sel>>
            /\ UNCHANGED <<crcVars, threads>>

measurements ==
    \E in \in MeasureInputs :
        LET m == measure(conversion_command, buffer, in[1], in[2])
        IN  /\ buffer' = m.buffer
            /\ call' = Call("measurements", "", m.result, m.trace)
            /\ UNCHANGED <<conversion_command, heater, sel>>
            /\ UNCHANGED <<crcVars, threads>>

temperature ==
    \E in \in MeasureInputs :
        LET m == measure(conversion_command, buffer, in[1], in[2])
        IN  /\ buffer' = m.buffer
            /\ call' = Call("temperature", "", Subscript(m.result, 0), m.trace)
            /\ UNCHANGED <<conversion_command, heater, sel>>
            /\ UNCHANGED <<crcVars, threads>>

relative_humidity ==
    \E in \in MeasureInputs :
        LET m == measure(conversion_command, buffer, in[1], in[2])
        IN  /\ buffer' = m.buffer
            /\ call' = Call("relative_humidity", "", Subscript(m.result, 1), m.trace)
            /\ UNCHANGED <<conversion_command, heater, sel>>
            /\ UNCHANGED <<crcVars, threads>>

-----------------------------------------------------------------------------
(* HTU31D.humidity_resolution, HTU31D.temp_resolution                      *)

(* Labels the setters are called with: the four of the setter's own table, *)
(* one of the other table and one that is in neither.                      *)
HumidityArgs == {_HTU31D_HUMIDITY_RES[i] : i \in 1..4} \cup {"0.025", "bogus"}

TempArgs == {_HTU31D_TEMP_RES[i] : i \in 1..4} \cup {"0.014%", "bogus"}

(* _HTU31D_HUMIDITY_RES[self._conversion_command >> 4 & 3]                 *)
humidity_resolution(cc) ==
    _HTU31D_HUMIDITY_RES[BitAnd(ShiftRight(cc, 4), 3) + 1]

(* _HTU31D_TEMP_RES[self._conversion_command >> 2 & 3]                     *)
temp_resolution(cc) ==
    _HTU31D_TEMP_RES[BitAnd(ShiftRight(cc, 2), 3) + 1]

(* a humidity setter that clears the field before it checks the label     *)
humidity_resolution_setter_clears_first(cc, value) ==
    LET register == BitAnd(cc, 207)
    IN  IF ~InTuple(value, _HTU31D_HUMIDITY_RES)
        THEN [cc |-> register, result |-> Raised("ValueError")]
        ELSE [cc |-> BitOr(register,
                           ShiftLeft(TupleIndex(_HTU31D_HUMIDITY_RES, value), 4)),
              result |-> ReturnedNone]

(* a humidity setter that puts the index two bits too high                 *)
humidity_resolution_setter_shift6(cc, value) ==
    IF ~InTuple(value, _HTU31D_HUMIDITY_RES)
    THEN [cc |-> cc, result |-> Raised("ValueError")]
    ELSE [cc |-> BitOr(BitAnd(cc, 207),
                       ShiftLeft(TupleIndex(_HTU31D_HUMIDITY_RES, value), 6)),
          result |-> ReturnedNone]

(* a temperature setter that does not clear the field before setting it   *)
temp_resolution_setter_no_clear(cc, value) ==
    IF ~InTuple(value, _HTU31D_TEMP_RES)
    THEN [cc |-> cc, result |-> Raised("ValueError")]
    ELSE [cc |-> BitOr(cc, ShiftLeft(TupleIndex(_HTU31D_TEMP_RES, value), 2)),
          result |-> ReturnedNone]

(* a temperature setter whose mask 0xC3 clears the humidity field too      *)
temp_resolution_setter_wide_mask(cc, value) ==
    IF ~InTuple(value, _HTU31D_TEMP_RES)
    THEN [cc |-> cc, result |-> Raised("ValueError")]
    ELSE [cc |-> BitOr(BitAnd(cc, 195),
                       ShiftLeft(TupleIndex(_HTU31D_TEMP_RES, value), 2)),
          result |-> ReturnedNone]

(* The setters: the command and the outcome they leave.                    *)
humidity_resolution_setter(cc, value) ==
    IF ~InTuple(value, _HTU31D_HUMIDITY_RES)
    THEN [cc |-> cc, result |-> Raised("ValueError")]
    ELSE LET register == BitAnd(cc, 207)      \* 0xCF
             hum_res  == TupleIndex(_HTU31D_HUMIDITY_RES, value)
         IN  [cc |-> BitOr(register, ShiftLeft(hum_res, 4)), result |-> ReturnedNone]

temp_resolution_setter(cc, value) ==
    IF ~InTuple(value, _HTU31D_TEMP_RES)
    THEN [cc |-> cc, result |-> Raised("ValueError")]
    ELSE LET register == BitAnd(cc, 243)      \* 0xF3
             temp_res == TupleIndex(_HTU31D_TEMP_RES, value)
         IN  [cc |-> BitOr(register, ShiftLeft(temp_res, 2)), result |-> ReturnedNone]

humidity_resolution_get ==
    /\ call' = Call("humidity_resolution", "",
                    Returned("str", <<humidity_resolution(conversion_command)>>), <<>>)
    /\ UNCHANGED <<conversion_command, heater, buffer, sel>>
    /\ UNCHANGED <<crcVars, threads>>

temp_resolution_get ==
    /\ call' = Call("temp_resolution", "",
                    Returned("str", <<temp_resolution(conversion_command)>>), <<>>)
    /\ UNCHANGED <<conversion_command, heater, buffer, sel>>
    /\ UNCHANGED <<crcVars, threads>>

humidity_resolution_set ==
    \E value \in HumidityArgs :
        LET r == humidity_resolution_setter(conversion_command, value)
        IN  /\ conversion_command' = r.cc
            /\ call' = Call("humidity_resolution=", value, r.result, <<>>)
            /\ sel' = IF r.result.kind = "return"
                      THEN [sel EXCEPT !.h = TupleIndex(_HTU31D_HUMIDITY_RES, value)]
                      ELSE sel
            /\ UNCHANGED <<heater, buffer>>
            /\ UNCHANGED <<crcVars, threads>>

temp_resolution_set ==
    \E value \in TempArgs :
        LET r == temp_resolution_setter(conversion_command, value)
        IN  /\ conversion_command' = r.cc
            /\ call' = Call("temp_resolution=", value, r.result, <<>>)
            /\ sel' = IF r.result.kind = "return"
                      THEN [sel EXCEPT !.t = TupleIndex(_HTU31D_TEMP_RES, value)]
                      ELSE sel
            /\ UNCHANGED <<heater, buffer>>
            /\ UNCHANGED <<crcVars, threads>>

-----------------------------------------------------------------------------
(* The session: any public operation, one call at a time.                  *)

SessionNext ==
    \/ reset
    \/ serial_number
    \/ heater_get
    \/ heater_set
    \/ measurements
    \/ temperature
    \/ relative_humidity
    \/ humidity_resolution_get
    \/ temp_resolution_get
    \/ humidity_resolution_set
    \/ temp_resolution_set

Next == SessionNext

Spec == Init /\ [][Next]_vars

-----------------------------------------------------------------------------
(* The first measurement of a new session, the device answering a sample   *)
(* with valid CRC bytes and any pair of the decode codes.                  *)

first_measurement ==
    /\ call.op = "__init__"
    /\ \E t \in DecodeCodes, h \in DecodeCodes :
          LET m == measure(conversion_command, buffer, 0, SampleBytes(t, 0, h, 0))
          IN  /\ buffer' = m.buffer
              /\ call' = Call("measurements", "", m.result, m.trace)
    /\ UNCHANGED <<conversion_command, heater, sel>>
    /\ UNCHANGED <<crcVars, threads>>

NextDecode == first_measurement

SpecDecode == Init /\ [][NextDecode]_vars

-----------------------------------------------------------------------------
(* Two callers on one session without a lock.  Each bus transaction is     *)
(* atomic (the bus device is locked for its duration); the assignments     *)
(* that precede a transaction are taken together as one step, and the time *)
(* a call sleeps is time in which the other caller may run.                *)

(* Caller t moves to record rec; a step of t falls inside the call of the  *)
(* other caller when that one is in a call.                                *)
Step(t, rec) ==
    threads' = [u \in Threads |->
                  IF u = t THEN rec
                  ELSE IF threads[u].pc # "idle"
                       THEN [threads[u] EXCEPT !.alone = FALSE]
                       ELSE threads[u]]

(* Caller t enters a call while the other caller is or is not in one.      *)
Enter(t, op, arg, pc) ==
    [pc |-> pc, op |-> op, arg |-> arg,
     alone |-> \A u \in Threads \ {t} : threads[u].pc = "idle",
     sent |-> <<>>, got |-> <<>>, unpacked |-> <<>>, ret |-> ReturnedNone]

Finish(rec, ret) == [rec EXCEPT !.pc = "idle", !.ret = ret]

(* reset, lines 106-107                                                    *)
c_reset_stage(t) ==
    /\ threads[t].pc = "idle"
    /\ conversion_command' = reset_conversion_command(conversion_command)
    /\ buffer' = SetByte0(buffer, _HTU31D_SOFTRESET)
    /\ Step(t, Enter(t, "reset", "", "reset_write"))
    /\ UNCHANGED <<heater, call, sel>>
    /\ UNCHANGED crcVars

(* reset, lines 108-110                                                    *)
c_reset_write(t) ==
    /\ threads[t].pc = "reset_write"
    /\ \E ok \in BOOLEAN :
          Step(t, Finish([threads[t] EXCEPT !.sent = Append(@, buffer[1])],
                         IF ok THEN ReturnedNone ELSE Raised("OSError")))
    /\ UNCHANGED sessionVars
    /\ UNCHANGED crcVars

(* heater setter, lines 120-128                                            *)
c_heater_stage(t) ==
    /\ threads[t].pc = "idle"
    /\ \E new_mode \in {"True", "False"} :
          /\ heater' = heater_cached(heater, new_mode)
          /\ buffer' = SetByte0(buffer, heater_command(new_mode))
          /\ Step(t, Enter(t, "heater=", new_mode, "heater_write"))
    /\ UNCHANGED <<conversion_command, call, sel>>
    /\ UNCHANGED crcVars

(* heater setter, lines 129-130                                            *)
c_heater_write(t) ==
    /\ threads[t].pc = "heater_write"
    /\ \E ok \in BOOLEAN :
          Step(t, Finish([threads[t] EXCEPT !.sent = Append(@, buffer[1])],
                         IF ok THEN ReturnedNone ELSE Raised("OSError")))
    /\ UNCHANGED sessionVars
    /\ UNCHANGED crcVars

(* measurements, lines 146-149                                             *)
c_measure_stage(t) ==
    /\ threads[t].pc = "idle"
    /\ buffer' = SetByte0(buffer, conversion_byte(conversion_command))
    /\ Step(t, Enter(t, "measurements", "", "m_write"))
    /\ UNCHANGED <<conversion_command, heater, call, sel>>
    /\ UNCHANGED crcVars

(* measurements, lines 150-154                                             *)
c_measure_write(t) ==
    /\ threads[t].pc = "m_write"
    /\ \E ok \in BOOLEAN :
          LET rec == [threads[t] EXCEPT !.sent = Append(@, buffer[1])]
          IN  Step(t, IF ok THEN [rec EXCEPT !.pc = "m_stage"]
                      ELSE Finish(rec, Raised("OSError")))
    /\ UNCHANGED sessionVars
    /\ UNCHANGED crcVars

(* measurements, line 156                                                  *)
c_measure_stage_read(t) ==
    /\ threads[t].pc = "m_stage"
    /\ buffer' = SetByte0(buffer, _HTU31D_READTEMPHUM)
    /\ Step(t, [threads[t] EXCEPT !.pc = "m_read"])
    /\ UNCHANGED <<conversion_command, heater, call, sel>>
    /\ UNCHANGED crcVars

(* measurements, lines 157-158                                             *)
c_measure_read(t) ==
    /\ threads[t].pc = "m_read"
    /\ \E in \in {<<FALSE, <<>> >>} \cup {<<TRUE, r>> : r \in Replies} :
          LET rec == [threads[t] EXCEPT !.sent = Append(@, buffer[1])]
          IN  IF in[1]
              THEN /\ buffer' = ReadInto(buffer, in[2])
                   /\ Step(t, [rec EXCEPT !.pc = "m_unpack", !.got = in[2]])
              ELSE /\ buffer' = buffer
                   /\ Step(t, Finish(rec, Raised("OSError")))
    /\ UNCHANGED <<conversion_command, heater, call, sel>>
    /\ UNCHANGED crcVars

(* measurements, lines 160-178                                             *)
c_measure_unpack(t) ==
    /\ threads[t].pc = "m_unpack"
    /\ LET s == struct_unpack_HBHB(buffer)
       IN  Step(t, Finish([threads[t] EXCEPT !.unpacked = buffer],
                          IF crc_invalid(s) THEN Raised("RuntimeError")
                          ELSE Returned("tuple",
                                 <<decode_temperature(s.temperature),
                                   decode_humidity(s.humidity)>>)))
    /\ UNCHANGED sessionVars
    /\ UNCHANGED crcVars

NextConc ==
    \E t \in Threads :
        \/ c_reset_stage(t)
        \/ c_reset_write(t)
        \/ c_heater_stage(t)
        \/ c_heater_write(t)
        \/ c_measure_stage(t)
        \/ c_measure_write(t)
        \/ c_measure_stage_read(t)
        \/ c_measure_read(t)
        \/ c_measure_unpack(t)

SpecConc == Init /\ [][NextConc]_vars

-----------------------------------------------------------------------------
(* HTU31D._crc run statement by statement, on every 16-bit argument.       *)

U16Max == 65535

InitCrc ==
    /\ InitSession
    /\ crc_pc = "call"
    /\ crc_value \in 0..U16Max
    /\ crc_reg = CrcIdle
    /\ crc_ret = 0

crc_enter ==
    /\ crc_pc = "call"
    /\ crc_reg' = CrcEntry(crc_value)
    /\ crc_pc' = "while"
    /\ UNCHANGED <<crc_value, crc_ret>>
    /\ UNCHANGED <<sessionVars, threads>>

crc_iterate ==
    /\ crc_pc = "while"
    /\ CrcLoopCond(crc_reg)
    /\ crc_reg' = CrcBody(crc_reg)
    /\ UNCHANGED <<crc_pc, crc_value, crc_ret>>
    /\ UNCHANGED <<sessionVars, threads>>

crc_return ==
    /\ crc_pc = "while"
    /\ ~CrcLoopCond(crc_reg)
    /\ crc_ret' = crc_reg.result
    /\ crc_pc' = "return"
    /\ UNCHANGED <<crc_value, crc_reg>>
    /\ UNCHANGED <<sessionVars, threads>>

NextCrc ==
    \/ crc_enter
    \/ crc_iterate
    \/ crc_return

SpecCrc == InitCrc /\ [][NextCrc]_vars

-----------------------------------------------------------------------------
(* Properties of the session.                                              *)

(* The last call ran both bus transactions of a measurement and the read   *)
(* delivered its six bytes, which the buffer still holds.                  *)
ReadBack ==
    /\ Len(call.trace) = 3
    /\ call.trace[3].kind = "write_then_readinto"
    /\ call.trace[3].ok

(* The sample in the buffer fails the CRC check of either word.            *)
SampleCorrupt ==
    LET s == struct_unpack_HBHB(buffer)
    IN  \/ s.temp_crc # _crc(s.temperature)
        \/ s.humidity_crc # _crc(s.humidity)

BusTransactions(trace) == {i \in 1..Len(trace) : trace[i].kind # "sleep"}

(* C1: a measurements call that read back a sample whose temperature CRC   *)
(* byte or humidity CRC byte differs from _crc of its word raises          *)
(* RuntimeError ("Invalid CRC calculated"), hands back no value, and has   *)
(* run no bus transaction beyond the conversion write and the one read.    *)
C1_CrcMismatchRaises ==
    (call.op = "measurements" /\ ReadBack /\ SampleCorrupt) =>
        /\ call.result = Raised("RuntimeError")
        /\ call.result.val = <<>>
        /\ Cardinality(BusTransactions(call.trace)) = 2

C1_Witness ==
    /\ call.op = "measurements"
    /\ ReadBack
    /\ SampleCorrupt
    /\ struct_unpack_HBHB(buffer).temp_crc = _crc(struct_unpack_HBHB(buffer).temperature)
    /\ call.result.kind = "raise"

(* C2: a measurements call first writes one byte, the current conversion   *)
(* command, which is 0x40 | t << 2 | h << 4 for the indices last set since *)
(* the last reset; when that write succeeds it then sleeps 20 ms or more   *)
(* and runs one write-then-read that writes the byte 0x00 and reads 6      *)
(* bytes; it runs nothing else, and nothing after a transaction that       *)
(* raised.                                                                 *)
C2_MeasureBusOrder ==
    call.op = "measurements" =>
        LET tr == call.trace
        IN  /\ Len(tr) >= 1
            /\ tr[1].kind = "write"
            /\ tr[1].out = <<conversion_command>>
            /\ conversion_command = _HTU31D_CONVERSION + 4 * sel.t + 16 * sel.h
            /\ IF tr[1].ok
               THEN /\ Len(tr) = 3
                    /\ tr[2].kind = "sleep"
                    /\ tr[2].ms >= 20
                    /\ tr[3].kind = "write_then_readinto"
                    /\ tr[3].out = <<0>>
                    /\ tr[3].in_len = 6
               ELSE Len(tr) = 1

C2_Witness ==
    /\ call.op = "measurements"
    /\ ReadBack
    /\ sel = [t |-> 2, h |-> 3]
    /\ call.trace[1].out = <<120>>

(* C3: a humidity setter called with any of the four humidity labels       *)
(* succeeds, and a humidity getter called right after it returns that      *)
(* label; the same for the temperature setter and getter with the four     *)
(* temperature labels.                                                     *)
C3_ResolutionRoundTrip ==
    /\ [](/\ (call.op = "humidity_resolution=" /\ InTuple(call.arg, _HTU31D_HUMIDITY_RES))
               => call.result = ReturnedNone
          /\ (call.op = "temp_resolution=" /\ InTuple(call.arg, _HTU31D_TEMP_RES))
               => call.result = ReturnedNone)
    /\ [][/\ (call.op = "humidity_resolution=" /\ call.result.kind = "return"
              /\ call'.op = "humidity_resolution")
                => call'.result = Returned("str", <<call.arg>>)
          /\ (call.op = "temp_resolution=" /\ call.result.kind = "return"
              /\ call'.op = "temp_resolution")
                => call'.result = Returned("str", <<call.arg>>)]_vars

C3_Witness ==
    /\ call.op = "temp_resolution"
    /\ call.result = Returned("str", <<"0.040">>)
    /\ sel = [t |-> 0, h |-> 2]
    /\ heater = "True"
    /\ buffer[1] = _HTU31D_HEATERON

(* C4: a resolution setter called with a label outside its own table       *)
(* raises ValueError, runs no bus transaction, and leaves the conversion   *)
(* command, the buffer and both resolutions as they were.                  *)
C4_InvalidLabelRejected ==
    [][/\ (call'.op = "humidity_resolution="
           /\ ~InTuple(call'.arg, _HTU31D_HUMIDITY_RES)) =>
              /\ call'.result = Raised("ValueError")
              /\ call'.trace = <<>>
              /\ conversion_command' = conversion_command
              /\ buffer' = buffer
              /\ humidity_resolution(conversion_command')
                    = humidity_resolution(conversion_command)
              /\ temp_resolution(conversion_command')
                    = temp_resolution(conversion_command)
       /\ (call'.op = "temp_resolution="
           /\ ~InTuple(call'.arg, _HTU31D_TEMP_RES)) =>
              /\ call'.result = Raised("ValueError")
              /\ call'.trace = <<>>
              /\ conversion_command' = conversion_command
              /\ buffer' = buffer
              /\ humidity_resolution(conversion_command')
                    = humidity_resolution(conversion_command)
              /\ temp_resolution(conversion_command')
                    = temp_resolution(conversion_command)]_vars

C4_Witness ==
    /\ call.op = "humidity_resolution="
    /\ call.arg = "bogus"
    /\ call.result = Raised("ValueError")
    /\ humidity_resolution(conversion_command) = "0.007%"
    /\ temp_resolution(conversion_command) = "0.025"

(* C5: when reset has returned the conversion command is 0x40, the         *)
(* humidity getter gives "0.020%" and the temperature getter "0.040", and  *)
(* a measurements call right after it writes 0x40 as its conversion byte.  *)
C5_ResetRestoresDefault ==
    /\ []((call.op = "reset" /\ call.result.kind = "return") =>
            /\ conversion_command = 64
            /\ humidity_resolution(conversion_command) = "0.020%"
            /\ temp_resolution(conversion_command) = "0.040")
    /\ [][(call.op = "reset" /\ call.result.kind = "return"
           /\ call'.op = "measurements")
             => call'.trace[1].out = <<64>>]_vars

(* a reset that returned, on a session that had measured and set the       *)
(* heater before                                                           *)
C5_Witness ==
    /\ call.op = "reset"
    /\ call.result = ReturnedNone
    /\ conversion_command = 64
    /\ buffer[3] # 0
    /\ heater = "False"

(* C6: the conversion command is always 0x40 | t << 2 | h << 4 for some    *)
(* indices t and h in 0..3: bit 6 set, bits 0, 1 and 7 clear.              *)
C6_CommandValid ==
    /\ \E t \in 0..3, h \in 0..3 :
          conversion_command = _HTU31D_CONVERSION + 4 * t + 16 * h
    /\ BitAnd(conversion_command, 64) = 64
    /\ BitAnd(conversion_command, 131) = 0

C6_Witness ==
    /\ conversion_command = 124
    /\ call.op = "temp_resolution="
    /\ call.result = Raised("ValueError")

(* C7: when the constructor or reset has returned, the heater getter       *)
(* returns False.                                                          *)
C7_HeaterOffAfterReset ==
    (call.op \in {"__init__", "reset"} /\ call.result.kind = "return") =>
        heater_getter(heater) = Returned("bool", <<"False">>)

(* C8: the heater getter runs no bus transaction and leaves the buffer     *)
(* alone, and called right after a heater setter that returned it returns  *)
(* the value that setter was given.                                        *)
C8_HeaterReadsCache ==
    [][call'.op = "heater" =>
          /\ call'.trace = <<>>
          /\ buffer' = buffer
          /\ (call.op = "heater=" /\ call.result.kind = "return")
                => call'.result = Returned("bool", <<call.arg>>)]_vars

C8_Witness ==
    /\ call.op = "heater"
    /\ call.result = Returned("bool", <<"False">>)
    /\ call.trace = <<>>
    /\ buffer[1] = _HTU31D_HEATEROFF

(* C9: a serial_number call that returns has run one write-then-read that  *)
(* writes the byte 0x0A and reads 4 bytes, and returns an integer, the     *)
(* big-endian value of those 4 bytes.                                      *)
C9_SerialIsInteger ==
    (call.op = "serial_number" /\ call.result.kind = "return") =>
        /\ call.trace = <<BusWriteThenRead(<<10>>, 4, TRUE)>>
        /\ call.result.pytype = "int"
        /\ call.result.val = <<U32(SubSeq(buffer, 1, 4))>>

(* C10: _crc returns a value in 0..255 for every 16-bit argument: at loop  *)
(* exit no bit of the working register above bit 7 is set.                 *)
C10_CrcFitsByte ==
    crc_pc = "return" =>
        /\ crc_ret \in 0..255
        /\ crc_ret = crc_reg.result
        /\ crc_reg.result \div 256 = 0

C10_Witness ==
    /\ crc_pc = "return"
    /\ crc_value = 65535
    /\ crc_ret = 45

-----------------------------------------------------------------------------
(* Properties of the _crc loop.                                            *)

(* C11 as stated: _crc returns with the top-bit mask at 0x80 after exactly *)
(* 8 iterations, the mask having started at 0x800000 and moved right one   *)
(* bit per iteration.                                                      *)
C11_CrcEightIterations ==
    /\ crc_pc = "while" => crc_reg.msb * Pow2(crc_reg.iters) = 8388608
    /\ crc_pc = "return" => (crc_reg.msb = 128 /\ crc_reg.iters = 8)

(* C11 amended: _crc returns with the top-bit mask at 0x80 after exactly   *)
(* 16 iterations (one per bit from bit 23 down to bit 8), the mask having  *)
(* started at 0x800000 and moved right one bit per iteration.              *)
C11_CrcSixteenIterations ==
    /\ crc_pc = "while" => crc_reg.msb * Pow2(crc_reg.iters) = 8388608
    /\ crc_pc = "return" => (crc_reg.msb = 128 /\ crc_reg.iters = 16)

C11_Witness ==
    /\ crc_pc = "return"
    /\ crc_value = 43981
    /\ crc_reg.iters = 16
    /\ crc_reg.msb = 128

(* The standard CRC-8, bit by bit: polynomial 0x31, initial value 0x00,    *)
(* most significant bit first, no final XOR.                               *)
Crc8Shift(crc) ==
    IF crc >= 128 THEN BitXor((2 * crc) % 256, 49) ELSE (2 * crc) % 256

Crc8Byte(crc, byte) ==
    LET x0 == BitXor(crc, byte)
    IN  Crc8Shift(Crc8Shift(Crc8Shift(Crc8Shift(
        Crc8Shift(Crc8Shift(Crc8Shift(Crc8Shift(x0))))))))

Crc8Word(v) == Crc8Byte(Crc8Byte(0, v \div 256), v % 256)

(* The remainder of the polynomial a divided by x^8+x^5+x^4+1 over GF(2).  *)
RECURSIVE TopBit(_)
TopBit(a) == IF a <= 1 THEN 0 ELSE 1 + TopBit(a \div 2)

RECURSIVE GF2Remainder(_)
GF2Remainder(a) ==
    IF a < 256 THEN a
    ELSE GF2Remainder(BitXor(a, 305 * Pow2(TopBit(a) - 8)))

(* C14: for every 16-bit v, _crc(v) is the standard CRC-8 (polynomial      *)
(* 0x31, initial value 0, no reflection, no final XOR) of the two bytes of *)
(* v, high byte first, and is the remainder of v * x^8 by 0x131 over GF(2).*)
C14_CrcIsCrc8 ==
    crc_pc = "return" =>
        /\ crc_ret = Crc8Word(crc_value)
        /\ crc_ret = GF2Remainder(crc_value * 256)

C14_Witness ==
    /\ crc_pc = "return"
    /\ crc_value = 48879
    /\ crc_ret = Crc8Word(48879)
    /\ crc_ret = 19

-----------------------------------------------------------------------------
(* Properties of the decoding.                                             *)

(* the sample a measurement that returned has decoded                      *)
Decoded == struct_unpack_HBHB(buffer)

(* C12 as stated: a measurement that returns gives the temperature         *)
(* -40 + 165 * code / 65535; code 0x0000 gives -40.0 and code 0xFFFF gives *)
(* 125.00228..., a value from 125.00228 up to 125.00229 (times 65535: from *)
(* 125 * 65535 + 149.4 up to 125 * 65535 + 150.1).                         *)
C12_TemperatureTop125_00228 ==
    (call.op = "measurements" /\ call.result.kind = "return") =>
        /\ call.result.val[1] = (-40) * 65535 + 165 * Decoded.temperature
        /\ Decoded.temperature = 0 => call.result.val[1] = (-40) * 65535
        /\ Decoded.temperature = 65535 =>
              /\ call.result.val[1] > 125 * 65535 + 149
              /\ call.result.val[1] < 125 * 65535 + 151

(* C12 amended: a measurement that returns gives the temperature           *)
(* -40 + 165 * code / 65535; code 0x0000 gives -40.0 and code 0xFFFF gives *)
(* exactly 125.0.                                                          *)
C12_TemperatureDecoding ==
    (call.op = "measurements" /\ call.result.kind = "return") =>
        /\ call.result.pytype = "tuple"
        /\ call.result.val[1] = (-40) * 65535 + 165 * Decoded.temperature
        /\ Decoded.temperature = 0 => call.result.val[1] = (-40) * 65535
        /\ Decoded.temperature = 65535 => call.result.val[1] = 125 * 65535

C12_Witness ==
    /\ call.op = "measurements"
    /\ call.result.kind = "return"
    /\ Decoded.temperature = 65535
    /\ call.result.val[1] = 125 * 65535

(* 100 * code / 65535 clamped to [0, 100], times 65535                     *)
Clamped(code) ==
    IF 100 * code > 100 * 65535 THEN 100 * 65535
    ELSE IF 100 * code < 0 THEN 0
    ELSE 100 * code

(* C13: a measurement that returns gives the relative humidity             *)
(* 100 * code / 65535 clamped to [0, 100], which lies in [0, 100]; code    *)
(* 0x0000 gives 0.0 and code 0xFFFF gives 100.0.                           *)
C13_HumidityDecoding ==
    (call.op = "measurements" /\ call.result.kind = "return") =>
        /\ call.result.val[2] = Clamped(Decoded.humidity)
        /\ call.result.val[2] >= 0
        /\ call.result.val[2] <= 100 * 65535
        /\ Decoded.humidity = 0 => call.result.val[2] = 0
        /\ Decoded.humidity = 65535 => call.result.val[2] = 100 * 65535

C13_Witness ==
    /\ call.op = "measurements"
    /\ call.result.kind = "return"
    /\ Decoded.humidity = 65535
    /\ Decoded.temperature = 0
    /\ call.result.val[2] = 100 * 65535

-----------------------------------------------------------------------------
(* Properties of failed and of framing calls.                              *)

(* C15 as stated: reset writes 0x1E first and restores the command only    *)
(* after that write, so a reset whose write raised leaves the conversion   *)
(* command as it was.                                                      *)
C15_FailedResetKeepsCommand ==
    [][(call'.op = "reset" /\ call'.result.kind = "raise")
          => conversion_command' = conversion_command]_vars

(* C15 amended: reset restores the command to 0x40 first, then writes the  *)
(* one byte 0x1E, and sleeps 15 ms or more last; a reset whose write       *)
(* raised has already restored the command to 0x40 (both resolutions at    *)
(* index 0) and does not sleep.                                            *)
C15_ResetOrder ==
    call.op = "reset" =>
        /\ conversion_command = 64
        /\ humidity_resolution(conversion_command) = "0.020%"
        /\ temp_resolution(conversion_command) = "0.040"
        /\ Len(call.trace) >= 1
        /\ call.trace[1].kind = "write"
        /\ call.trace[1].out = <<30>>
        /\ IF call.trace[1].ok
           THEN /\ call.result = ReturnedNone
                /\ Len(call.trace) = 2
                /\ call.trace[2].kind = "sleep"
                /\ call.trace[2].ms >= 15
           ELSE /\ call.result = Raised("OSError")
                /\ Len(call.trace) = 1

C15_Witness ==
    /\ call.op = "reset"
    /\ call.result = Raised("OSError")
    /\ conversion_command = 64
    /\ heater = "True"
    /\ buffer[3] # 0

(* C16: a heater setter whose bus write raised leaves the cached flag as   *)
(* it was, so that the flag is that of the last heater opcode written      *)
(* with success.                                                           *)
C16_FailedHeaterWriteKeepsFlag ==
    [][(call'.op = "heater=" /\ call'.result = Raised("OSError"))
          => heater' = heater]_vars

MeasureOps == {"measurements", "temperature", "relative_humidity"}

(* C17: only reset and the two resolution setters change the conversion    *)
(* command; the three measuring calls (returning or raising),              *)
(* serial_number and the three getters leave the heater flag alone; and a  *)
(* measuring call right after one that raised the CRC error writes the     *)
(* same conversion byte.                                                   *)
C17_CommandFrame ==
    [][/\ call'.op \notin {"reset", "humidity_resolution=", "temp_resolution="}
            => conversion_command' = conversion_command
       /\ call'.op \in MeasureOps \cup
             {"serial_number", "heater", "humidity_resolution", "temp_resolution"}
            => heater' = heater
       /\ (call.op \in MeasureOps /\ call.result = Raised("RuntimeError")
           /\ call'.op \in MeasureOps)
            => call'.trace[1].out = call.trace[1].out]_vars

C17_Witness ==
    /\ call.op = "measurements"
    /\ call.result = Raised("RuntimeError")
    /\ conversion_command = 124
    /\ call.trace[1].out = <<124>>
    /\ heater = "True"

(* C18: a humidity setter that returned changed no bit of the command      *)
(* outside bits 4-5 and left the temperature resolution as it was; a       *)
(* temperature setter that returned changed no bit outside bits 2-3 and    *)
(* left the humidity resolution as it was; neither ran a bus transaction   *)
(* nor changed the buffer or the heater flag.                              *)
C18_FieldsIndependent ==
    [][/\ (call'.op = "humidity_resolution=" /\ call'.result.kind = "return") =>
              /\ BitAnd(conversion_command', 207) = BitAnd(conversion_command, 207)
              /\ temp_resolution(conversion_command')
                    = temp_resolution(conversion_command)
              /\ call'.trace = <<>>
              /\ buffer' = buffer
              /\ heater' = heater
       /\ (call'.op = "temp_resolution=" /\ call'.result.kind = "return") =>
              /\ BitAnd(conversion_command', 243) = BitAnd(conversion_command, 243)
              /\ humidity_resolution(conversion_command')
                    = humidity_resolution(conversion_command)
              /\ call'.trace = <<>>
              /\ buffer' = buffer
              /\ heater' = heater]_vars

C18_Witness ==
    /\ call.op = "temp_resolution="
    /\ call.arg = "0.025"
    /\ call.result = ReturnedNone
    /\ conversion_command = 116
    /\ heater = "False"

(* C19: a temperature or relative_humidity call runs the same bus          *)
(* sequence as measurements (conversion write, sleep, one 6-byte           *)
(* write-then-read) once; when the sample read back fails either CRC check *)
(* it raises RuntimeError, whichever value was asked for, and otherwise it *)
(* returns the one decoded value.                                          *)
C19_AccessorsMeasureFully ==
    call.op \in {"temperature", "relative_humidity"} =>
        LET tr == call.trace
        IN  /\ Len(tr) >= 1
            /\ tr[1] = BusWrite(<<conversion_command>>, tr[1].ok)
            /\ tr[1].ok =>
                  /\ Len(tr) = 3
                  /\ tr[2].kind = "sleep"
                  /\ tr[3] = BusWriteThenRead(<<0>>, 6, tr[3].ok)
            /\ ~tr[1].ok => Len(tr) = 1
            /\ ReadBack =>
                  IF SampleCorrupt
                  THEN call.result = Raised("RuntimeError")
                  ELSE call.result = Returned("float",
                         <<IF call.op = "temperature"
                           THEN (-40) * 65535 + 165 * Decoded.temperature
                           ELSE Clamped(Decoded.humidity)>>)

(* temperature asked for, temperature CRC byte right, humidity CRC wrong   *)
C19_Witness ==
    /\ call.op = "temperature"
    /\ ReadBack
    /\ Decoded.temp_crc = _crc(Decoded.temperature)
    /\ Decoded.humidity_crc # _crc(Decoded.humidity)
    /\ call.result = Raised("RuntimeError")

-----------------------------------------------------------------------------
(* Properties of two callers sharing the session.                          *)

(* the opcodes a call puts on the bus, in order, while the conversion      *)
(* command is the base opcode                                              *)
OwnOpcodes(op, arg) ==
    IF op = "reset" THEN <<30>>
    ELSE IF op = "heater=" THEN (IF arg = "True" THEN <<4>> ELSE <<2>>)
    ELSE IF op = "measurements" THEN <<64, 0>>
    ELSE <<>>

IsPrefix(a, b) == Len(a) <= Len(b) /\ a = SubSeq(b, 1, Len(a))

(* C20, strictly sequential use: a call inside which no step of the other  *)
(* caller fell has put on the bus only its own opcodes, in order, and a    *)
(* measurement has unpacked exactly the six bytes it read.                 *)
C20_SequentialUseSafe ==
    \A t \in Threads :
        (threads[t].op # "" /\ threads[t].alone) =>
            /\ IsPrefix(threads[t].sent, OwnOpcodes(threads[t].op, threads[t].arg))
            /\ threads[t].pc = "idle" /\ threads[t].ret.kind = "return"
                  => threads[t].sent = OwnOpcodes(threads[t].op, threads[t].arg)
            /\ threads[t].unpacked # <<>> => threads[t].unpacked = threads[t].got

(* C20, the bad interleaving: a measurement has put the soft-reset opcode  *)
(* staged by the other caller on the bus in place of its conversion        *)
(* command, and has unpacked bytes that differ from the six it read.       *)
C20_Witness ==
    \E t \in Threads :
        /\ threads[t].op = "measurements"
        /\ threads[t].pc = "idle"
        /\ ~threads[t].alone
        /\ threads[t].sent = <<30, 0>>
        /\ threads[t].unpacked # <<>>
        /\ threads[t].unpacked # threads[t].got

====
